---- MODULE Spec2Model ----
(***************************************************************************)
(* A model of split_midi.py: MidiSplitter splits a midicsv event list into *)
(* one file per MIDI channel.  Fields of a CSV row are modelled as         *)
(* sequences of one-character strings so that int(row[3]) is computed      *)
(* character by character; a row is a sequence of fields; a file of rows   *)
(* is a sequence of rows.                                                  *)
(***************************************************************************)
EXTENDS Integers, Sequences, FiniteSets, TLC

\* ------------------------------------------------------------------------
\* Bounds of the model
\* ------------------------------------------------------------------------
\* longest row list read from an input file under SpecEvents
MaxRows == 3
\* longest row list read from an input file under Spec
MaxFileRows == 2
\* process_file calls made on one MidiSplitter object under Spec
MaxCalls == 2

\* ------------------------------------------------------------------------
\* Module constants (split_midi.py:26-35)
\* ------------------------------------------------------------------------
Note_on_c == <<"N","o","t","e","_","o","n","_","c">>
Note_off_c == <<"N","o","t","e","_","o","f","f","_","c">>
Control_c == <<"C","o","n","t","r","o","l","_","c">>
Program_c == <<"P","r","o","g","r","a","m","_","c">>
Pitch_bend_c == <<"P","i","t","c","h","_","b","e","n","d","_","c">>

MIDI_EVENTS == {Note_on_c, Note_off_c, Control_c, Program_c, Pitch_bend_c}

META_EVENT_CHANNEL == -1

\* ------------------------------------------------------------------------
\* int(text): Python's base-10 integer parse of a str.  Surrounding blanks
\* are stripped, one sign is allowed, single underscores may separate
\* digits; anything else raises ValueError.
\* ------------------------------------------------------------------------
Digits == <<"0","1","2","3","4","5","6","7","8","9">>

IsDigit(c) == \E d \in 1..10 : Digits[d] = c

DigitVal(c) == (CHOOSE d \in 1..10 : Digits[d] = c) - 1

RECURSIVE LStrip(_)
LStrip(s) == IF s # <<>> /\ Head(s) = " " THEN LStrip(Tail(s)) ELSE s

RECURSIVE RStrip(_)
RStrip(s) ==
    IF s # <<>> /\ s[Len(s)] = " " THEN RStrip(SubSeq(s, 1, Len(s) - 1)) ELSE s

Strip(s) == RStrip(LStrip(s))

Unsigned(s) == IF s # <<>> /\ Head(s) \in {"+", "-"} THEN Tail(s) ELSE s

ValidDigits(s) ==
    /\ s # <<>>
    /\ IsDigit(s[1])
    /\ IsDigit(s[Len(s)])
    /\ \A k \in 1..Len(s) : IsDigit(s[k]) \/ s[k] = "_"
    /\ \A k \in 1..(Len(s) - 1) : ~(s[k] = "_" /\ s[k + 1] = "_")

RECURSIVE DigitsValue(_, _)
DigitsValue(s, acc) ==
    IF s = <<>> THEN acc
    ELSE IF Head(s) = "_" THEN DigitsValue(Tail(s), acc)
    ELSE DigitsValue(Tail(s), 10 * acc + DigitVal(Head(s)))

\* TRUE iff int(text) returns; FALSE iff it raises ValueError
IntParses(text) == ValidDigits(Unsigned(Strip(text)))

\* the value int(text) returns, for a text that parses
int(text) ==
    LET t == Strip(text)
        v == DigitsValue(Unsigned(t), 0)
    IN  IF Head(t) = "-" THEN 0 - v ELSE v

\* ------------------------------------------------------------------------
\* Rows the CSV reader can hand over
\* ------------------------------------------------------------------------
Tempo == <<"T","e","m","p","o">>
End_track == <<"E","n","d","_","t","r","a","c","k">>

ShortRow == << <<"0">>, <<"0">> >>
EndTrackRow == << <<"1">>, <<"9">>, End_track >>
BareControlRow == << <<"1">>, <<"0">>, Control_c >>
TempoRow == << <<"1">>, <<"0">>, Tempo, <<"2">> >>
NoteOnRow == << <<"1">>, <<"5">>, Note_on_c, <<"1">>, <<"4">> >>
ControlRow == << <<"1">>, <<"6">>, Control_c, <<"0","1">>, <<"7">> >>
ProgramRow == << <<"1">>, <<"7">>, Program_c, <<"2">> >>
NoteOffRow == << <<"1">>, <<"8">>, Note_off_c, <<"-","1">>, <<"4">> >>
PitchBendRow == << <<"1">>, <<"3">>, Pitch_bend_c, <<"x">>, <<"0">> >>

\* the rows of the files read under SpecEvents
RowKinds ==
    {ShortRow, EndTrackRow, BareControlRow, TempoRow, NoteOnRow, ControlRow,
     ProgramRow, NoteOffRow, PitchBendRow}

\* the rows of the files read under Spec: one row for each outcome of the
\* classification (global, channel 1, channel 2, channel -1, ValueError)
FileRowKinds ==
    {ShortRow, TempoRow, NoteOnRow, ProgramRow, NoteOffRow, PitchBendRow}

RowLists(kinds, n) == UNION { [1..k -> kinds] : k \in 0..n }

\* ------------------------------------------------------------------------
\* Paths.  A path is a sequence of characters.
\* ------------------------------------------------------------------------
MIDI_EXTENSIONS == { <<".","m","i","d">>, <<".","m","i","d","i">> }

OUTPUT_DIR_NAME == "split_channels"

BinaryPath == <<"a",".","M","I","D">>
TextPath == <<"a",".","c","s","v">>
MissingPath == <<"n">>

InputPaths == {BinaryPath, TextPath, MissingPath}

lower(s) ==
    [k \in 1..Len(s) |->
        CASE s[k] = "M" -> "m"
          [] s[k] = "I" -> "i"
          [] s[k] = "D" -> "d"
          [] OTHER -> s[k]]

endswith(s, suffix) ==
    /\ Len(suffix) <= Len(s)
    /\ SubSeq(s, Len(s) - Len(suffix) + 1, Len(s)) = suffix

is_midi_file(file_path) ==
    \E ext \in MIDI_EXTENSIONS : endswith(lower(file_path), ext)

\* file_path.rsplit('.', 1)[0]
RsplitDotHead(s) ==
    IF \E k \in 1..Len(s) : s[k] = "."
    THEN LET last == CHOOSE k \in 1..Len(s) :
                        s[k] = "." /\ \A m \in (k + 1)..Len(s) : s[m] # "."
         IN  SubSeq(s, 1, last - 1)
    ELSE s

csv_path_of(midi_file) == RsplitDotHead(midi_file) \o <<".","c","s","v">>

\* ------------------------------------------------------------------------
\* MidiSplitter.is_midi_event and MidiSplitter._process_midi_events
\* ------------------------------------------------------------------------
\* is_midi_event without the label test: any event type counts
is_midi_event_any(event_type) == TRUE

is_midi_event(event_type) == event_type \in MIDI_EVENTS

\* ProcessRow with a lenient read of the channel field: a row whose field 3
\* is no integer is kept as a global row instead of raising
ProcessRowLenient(acc, row) ==
    IF acc.raised THEN acc
    ELSE IF Len(row) < 3
    THEN [acc EXCEPT !.midi_events = Append(@, <<META_EVENT_CHANNEL, row>>)]
    ELSE LET event_type == row[3] IN
         IF is_midi_event(event_type) /\ Len(row) > 3 /\ IntParses(row[4])
         THEN LET channel == int(row[4]) IN
              [acc EXCEPT
                 !.channels =
                     IF \E k \in 1..Len(@) : @[k] = channel
                     THEN @ ELSE Append(@, channel),
                 !.midi_events = Append(@, <<channel, row>>)]
         ELSE [acc EXCEPT !.midi_events = Append(@, <<META_EVENT_CHANNEL, row>>)]

\* one iteration of "for row in rows"; acc is the pair of lists built so far
ProcessRow(acc, row) ==
    IF acc.raised THEN acc
    ELSE IF Len(row) < 3
    THEN [acc EXCEPT !.midi_events = Append(@, <<META_EVENT_CHANNEL, row>>)]
    ELSE LET event_type == row[3] IN
         IF is_midi_event(event_type) /\ Len(row) > 3
         THEN IF IntParses(row[4])
              THEN LET channel == int(row[4]) IN
                   [acc EXCEPT
                      !.channels =
                          IF \E k \in 1..Len(@) : @[k] = channel
                          THEN @ ELSE Append(@, channel),
                      !.midi_events = Append(@, <<channel, row>>)]
              ELSE [acc EXCEPT !.raised = TRUE]
         ELSE [acc EXCEPT !.midi_events = Append(@, <<META_EVENT_CHANNEL, row>>)]

RECURSIVE ProcessRows(_, _)
ProcessRows(acc, rs) ==
    IF rs = <<>> THEN acc ELSE ProcessRows(ProcessRow(acc, Head(rs)), Tail(rs))

\* raised = TRUE stands for the ValueError of int(row[3])
_process_midi_events(rs) ==
    ProcessRows([raised |-> FALSE, channels |-> <<>>, midi_events |-> <<>>], rs)

\* the test of the writer's loop body (split_midi.py:198)
Selected(event, ch) == event[1] = ch \/ event[1] = META_EVENT_CHANNEL

\* ------------------------------------------------------------------------
\* Exceptions
\* ------------------------------------------------------------------------
Exceptions ==
    {"MidiSplitterError", "CalledProcessError", "FileNotFoundError",
     "PermissionError", "OSError", "ValueError"}

\* the except clauses of convert_midi_to_csv and convert_csv_to_midi
ConvertHandler(e) ==
    IF e \in {"CalledProcessError", "FileNotFoundError"}
    THEN "MidiSplitterError" ELSE e

\* the handler of process_file written as "except OSError"
ProcessFileHandlerOSError(e) ==
    IF e \in {"OSError", "PermissionError", "FileNotFoundError"}
    THEN "MidiSplitterError" ELSE e

\* "except Exception as e: raise MidiSplitterError(...)" of process_file
ProcessFileHandler(e) == IF e \in Exceptions THEN "MidiSplitterError" ELSE e

\* what subprocess.run can raise
SubprocessErrors == {"CalledProcessError", "FileNotFoundError", "PermissionError"}

\* ------------------------------------------------------------------------
\* State
\* ------------------------------------------------------------------------
VARIABLES
    remove_csv,     \* self.remove_csv: "None", "True" or "False"
    input_file,     \* self.input_file (<<>> stands for None)
    csv_file,       \* self.csv_file (<<>> stands for None)
    output_dir,     \* self.output_dir ("None" or the directory's name)
    files,          \* paths that exist next to the input
    out_dir,        \* TRUE iff the split_channels directory exists
    out_csv,        \* the N for which split_channels/channel_N.csv exists
    out_mid,        \* the N for which split_channels/channel_N.mid exists
    pc,             \* position of the running process_file call
    rows,           \* local rows of process_csv_file
    channels,       \* local channels of process_csv_file
    midi_events,    \* local midi_events of process_csv_file
    ci,             \* position of "for channel in channels" (1-based)
    ei,             \* position of "for event in midi_events" (1-based)
    f,              \* the file _write_channel_file has written: open?, rows
    result,         \* how the call ended: "none", "returned" or an exception
    failed_at,      \* the step whose failure ended the call
    existed,        \* what os.path.exists(input_file) returned
    before,         \* the file system as it was when the call started
    written,        \* channels whose channel_N.csv this call has opened
    converted,      \* channels whose csvmidi run of this call succeeded
    ctor_remove_csv,\* the remove_csv argument of __init__
    calls_left,     \* process_file calls the client still makes
    caller,         \* "main" (the command line) or "library"
    argc,           \* len(sys.argv) when the caller is main
    exit_status     \* -1 while the process runs, else the status of sys.exit

vars ==
    <<remove_csv, input_file, csv_file, output_dir, files, out_dir, out_csv,
      out_mid, pc, rows, channels, midi_events, ci, ei, f, result, failed_at,
      existed, before, written, converted, ctor_remove_csv, calls_left,
      caller, argc, exit_status>>

self_vars == <<remove_csv, input_file, csv_file, output_dir>>
fs_vars == <<files, out_dir, out_csv, out_mid>>
local_vars == <<rows, channels, midi_events, ci, ei, f>>
client_vars == <<ctor_remove_csv, calls_left, caller, argc, exit_status>>

\* the loop of process_csv_file walking the channel list backwards
channelReversed == channels[Len(channels) + 1 - ci]

\* the loop variable of "for channel in channels" (split_midi.py:224)
channel == channels[ci]

Snapshot == [files |-> files, out_dir |-> out_dir, out_csv |-> out_csv, out_mid |-> out_mid]

\* MidiSplitter.__init__ followed by nothing else; the input directory holds
\* a binary file and a textual file
InitObject(ctor, who, n, budget) ==
    /\ remove_csv = ctor
    /\ input_file = <<>>
    /\ csv_file = <<>>
    /\ output_dir = "None"
    /\ files = {BinaryPath, TextPath}
    /\ out_dir = FALSE
    /\ out_csv = {}
    /\ out_mid = {}
    /\ pc = "idle"
    /\ rows = <<>>
    /\ channels = <<>>
    /\ midi_events = <<>>
    /\ ci = 0
    /\ ei = 0
    /\ f = [open |-> FALSE, rows |-> <<>>]
    /\ result = "none"
    /\ failed_at = "none"
    /\ existed = FALSE
    /\ before = Snapshot
    /\ written = <<>>
    /\ converted = {}
    /\ ctor_remove_csv = ctor
    /\ calls_left = budget
    /\ caller = who
    /\ argc = n
    /\ exit_status = -1

Init ==
    \/ \E ctor \in {"None", "True", "False"} : InitObject(ctor, "library", 2, MaxCalls)
    \/ \E n \in 1..3 : InitObject("None", "main", n, 1)

InitEvents ==
    \E ctor \in {"None", "True", "False"} : InitObject(ctor, "library", 2, 1)

\* ------------------------------------------------------------------------
\* process_file
\* ------------------------------------------------------------------------
\* the locals of process_csv_file and _write_channel_file once their frames
\* are gone
FramesGone ==
    /\ rows' = <<>>
    /\ channels' = <<>>
    /\ midi_events' = <<>>
    /\ ci' = 0
    /\ ei' = 0
    /\ f' = [open |-> FALSE, rows |-> <<>>]

\* an exception raised inside the try block of process_file
Raise(e, site) ==
    /\ pc' = "done"
    /\ result' = ProcessFileHandler(e)
    /\ failed_at' = site
    /\ FramesGone

\* process_file up to the os.path.exists test (split_midi.py:248-251)
Call(p) ==
    /\ pc \in {"idle", "done"}
    /\ calls_left > 0
    /\ exit_status = -1
    /\ caller = "main" => argc = 2
    /\ calls_left' = calls_left - 1
    /\ input_file' = p
    /\ existed' = (p \in files)
    /\ before' = Snapshot
    /\ written' = <<>>
    /\ converted' = {}
    /\ FramesGone
    /\ IF p \in files
       THEN pc' = "try" /\ result' = "none" /\ failed_at' = "none"
       ELSE pc' = "done" /\ result' = "MidiSplitterError" /\ failed_at' = "exists"
    /\ UNCHANGED <<remove_csv, csv_file, output_dir, fs_vars, ctor_remove_csv,
                   caller, argc, exit_status>>

\* the binary branch, midicsv succeeding (split_midi.py:255-259, 89-97)
ConvertMidiOk ==
    /\ pc = "try"
    /\ is_midi_file(input_file)
    /\ csv_file' = csv_path_of(input_file)
    /\ files' = files \cup {csv_path_of(input_file)}
    /\ remove_csv' = IF remove_csv = "None" THEN "True" ELSE remove_csv
    /\ pc' = "read"
    /\ UNCHANGED <<input_file, output_dir, out_dir, out_csv, out_mid, local_vars,
                   result, failed_at, existed, before, written, converted,
                   client_vars>>

\* the binary branch, subprocess.run raising (split_midi.py:98-103); a
\* failing midicsv may or may not leave an output file behind
ConvertMidiFail ==
    /\ pc = "try"
    /\ is_midi_file(input_file)
    /\ \E e \in SubprocessErrors :
         /\ Raise(ConvertHandler(e), "midicsv")
         /\ \/ files' = files
            \/ e = "CalledProcessError" /\ files' = files \cup {csv_path_of(input_file)}
    /\ UNCHANGED <<self_vars, out_dir, out_csv, out_mid, existed, before, written,
                   converted, client_vars>>

\* the textual branch (split_midi.py:260-263)
UseCsv ==
    /\ pc = "try"
    /\ ~is_midi_file(input_file)
    /\ csv_file' = input_file
    /\ remove_csv' = IF remove_csv = "None" THEN "False" ELSE remove_csv
    /\ pc' = "read"
    /\ UNCHANGED <<input_file, output_dir, fs_vars, local_vars, result, failed_at,
                   existed, before, written, converted, client_vars>>

\* ------------------------------------------------------------------------
\* process_csv_file
\* ------------------------------------------------------------------------
\* reading all rows (split_midi.py:213-215); D is the set of possible contents
ReadOk(D) ==
    /\ pc = "read"
    /\ csv_file \in files
    /\ \E d \in D : rows' = d
    /\ pc' = "mkdir"
    /\ UNCHANGED <<self_vars, fs_vars, channels, midi_events, ci, ei, f, result,
                   failed_at, existed, before, written, converted, client_vars>>

ReadFail ==
    /\ pc = "read"
    /\ Raise("OSError", "read")
    /\ UNCHANGED <<self_vars, fs_vars, existed, before, written, converted,
                   client_vars>>

\* _create_output_directory (split_midi.py:151-152)
MkdirOk ==
    /\ pc = "mkdir"
    /\ output_dir' = OUTPUT_DIR_NAME
    /\ out_dir' = TRUE
    /\ pc' = "classify"
    /\ UNCHANGED <<remove_csv, input_file, csv_file, files, out_csv, out_mid,
                   local_vars, result, failed_at, existed, before, written,
                   converted, client_vars>>

MkdirFail ==
    /\ pc = "mkdir"
    /\ ~out_dir
    /\ output_dir' = OUTPUT_DIR_NAME
    /\ Raise("PermissionError", "mkdir")
    /\ UNCHANGED <<remove_csv, input_file, csv_file, fs_vars, existed, before,
                   written, converted, client_vars>>

\* channels, midi_events = self._process_midi_events(rows) (split_midi.py:221)
\* and the head of "for channel in channels"
Classify ==
    /\ pc = "classify"
    /\ LET r == _process_midi_events(rows) IN
         IF r.raised
         THEN Raise("ValueError", "classify")
         ELSE /\ channels' = r.channels
              /\ midi_events' = r.midi_events
              /\ ci' = IF r.channels = <<>> THEN 0 ELSE 1
              /\ pc' = IF r.channels = <<>> THEN "cleanup" ELSE "open"
              /\ UNCHANGED <<rows, ei, f, result, failed_at>>
    /\ UNCHANGED <<self_vars, fs_vars, existed, before, written, converted,
                   client_vars>>

\* _write_channel_file: open(output_file, 'w') (split_midi.py:194-196)
OpenOk ==
    /\ pc = "open"
    /\ out_csv' = out_csv \cup {channel}
    /\ f' = [open |-> TRUE, rows |-> <<>>]
    /\ ei' = 1
    /\ written' = Append(written, channel)
    /\ pc' = "write"
    /\ UNCHANGED <<self_vars, files, out_dir, out_mid, rows, channels, midi_events,
                   ci, result, failed_at, existed, before, converted, client_vars>>

OpenFail ==
    /\ pc = "open"
    /\ Raise("PermissionError", "open")
    /\ UNCHANGED <<self_vars, fs_vars, existed, before, written, converted,
                   client_vars>>

\* _write_channel_file: one iteration of the loop (split_midi.py:197-199)
WriteRow ==
    /\ pc = "write"
    /\ ei <= Len(midi_events)
    /\ f' = IF Selected(midi_events[ei], channel)
            THEN [f EXCEPT !.rows = Append(@, midi_events[ei][2])]
            ELSE f
    /\ ei' = ei + 1
    /\ UNCHANGED <<self_vars, fs_vars, pc, rows, channels, midi_events, ci, result,
                   failed_at, existed, before, written, converted, client_vars>>

\* writer.writerow failing (the device is full); the with block closes f and
\* the exception leaves both frames
WriteFail ==
    /\ pc = "write"
    /\ ei <= Len(midi_events)
    /\ Selected(midi_events[ei], channel)
    /\ Raise("OSError", "write")
    /\ UNCHANGED <<self_vars, fs_vars, existed, before, written, converted,
                   client_vars>>

\* _write_channel_file: the end of the with block and the return
CloseFile ==
    /\ pc = "write"
    /\ ei > Len(midi_events)
    /\ f' = [f EXCEPT !.open = FALSE]
    /\ pc' = "convert"
    /\ UNCHANGED <<self_vars, fs_vars, rows, channels, midi_events, ci, ei, result,
                   failed_at, existed, before, written, converted, client_vars>>

\* convert_csv_to_midi succeeding (split_midi.py:229, 117-125)
ConvertCsvOk ==
    /\ pc = "convert"
    /\ out_mid' = out_mid \cup {channel}
    /\ converted' = converted \cup {channel}
    /\ pc' = "remove"
    /\ UNCHANGED <<self_vars, files, out_dir, out_csv, local_vars, result,
                   failed_at, existed, before, written, client_vars>>

\* ConvertCsvFail with the textual file deleted on the failure path as well
ConvertCsvFailRemoving ==
    /\ pc = "convert"
    /\ \E e \in SubprocessErrors :
         /\ Raise(ConvertHandler(e), "csvmidi")
         /\ \/ out_mid' = out_mid
            \/ e = "CalledProcessError" /\ out_mid' = out_mid \cup {channel}
    /\ out_csv' = IF remove_csv = "True" THEN out_csv \ {channel} ELSE out_csv
    /\ UNCHANGED <<self_vars, files, out_dir, existed, before, written, converted,
                   client_vars>>

\* convert_csv_to_midi raising (split_midi.py:126-131); a failing csvmidi
\* may or may not leave an output file behind
ConvertCsvFail ==
    /\ pc = "convert"
    /\ \E e \in SubprocessErrors :
         /\ Raise(ConvertHandler(e), "csvmidi")
         /\ \/ out_mid' = out_mid
            \/ e = "CalledProcessError" /\ out_mid' = out_mid \cup {channel}
    /\ UNCHANGED <<self_vars, files, out_dir, out_csv, existed, before, written,
                   converted, client_vars>>

\* RemoveChannelCsv with the flag test left out
RemoveChannelCsvAlways ==
    /\ pc = "remove"
    /\ out_csv' = out_csv \ {channel}
    /\ IF ci < Len(channels)
       THEN ci' = ci + 1 /\ pc' = "open"
       ELSE ci' = ci /\ pc' = "cleanup"
    /\ UNCHANGED <<self_vars, files, out_dir, out_mid, rows, channels, midi_events,
                   ei, f, result, failed_at, existed, before, written, converted,
                   client_vars>>

\* "if self.remove_csv: os.remove(output_file)" and the next iteration
\* (split_midi.py:232-233, 224)
RemoveChannelCsv ==
    /\ pc = "remove"
    /\ out_csv' = IF remove_csv = "True" THEN out_csv \ {channel} ELSE out_csv
    /\ IF ci < Len(channels)
       THEN ci' = ci + 1 /\ pc' = "open"
       ELSE ci' = ci /\ pc' = "cleanup"
    /\ UNCHANGED <<self_vars, files, out_dir, out_mid, rows, channels, midi_events,
                   ei, f, result, failed_at, existed, before, written, converted,
                   client_vars>>

\* "if self.remove_csv: os.remove(self.csv_file)" and the return of
\* process_file (split_midi.py:269-271)
Cleanup ==
    /\ pc = "cleanup"
    /\ files' = IF remove_csv = "True" THEN files \ {csv_file} ELSE files
    /\ pc' = "done"
    /\ result' = "returned"
    /\ FramesGone
    /\ UNCHANGED <<self_vars, out_dir, out_csv, out_mid, failed_at,
                   existed, before, written, converted, client_vars>>

\* ------------------------------------------------------------------------
\* main
\* ------------------------------------------------------------------------
\* len(sys.argv) != 2 (split_midi.py:281-283)
MainUsage ==
    /\ caller = "main"
    /\ pc = "idle"
    /\ argc # 2
    /\ exit_status = -1
    /\ exit_status' = 1
    /\ UNCHANGED <<self_vars, fs_vars, pc, local_vars, result, failed_at, existed,
                   before, written, converted, ctor_remove_csv, calls_left, caller,
                   argc>>

\* the end of main: sys.exit(1) in the except clause, status 0 when main
\* returns, status 1 when an exception escapes main (split_midi.py:285-290)
MainExit ==
    /\ caller = "main"
    /\ pc = "done"
    /\ exit_status = -1
    /\ exit_status' = IF result = "returned" THEN 0 ELSE 1
    /\ UNCHANGED <<self_vars, fs_vars, pc, local_vars, result, failed_at, existed,
                   before, written, converted, ctor_remove_csv, calls_left, caller,
                   argc>>

ProcessFile == \E p \in InputPaths : Call(p)

ReadCsv == ReadOk(RowLists(FileRowKinds, MaxFileRows))

ReadEvents == ReadOk(RowLists(RowKinds, MaxRows))

Next ==
    \/ ProcessFile
    \/ ConvertMidiOk
    \/ ConvertMidiFail
    \/ UseCsv
    \/ ReadCsv
    \/ ReadFail
    \/ MkdirOk
    \/ MkdirFail
    \/ Classify
    \/ OpenOk
    \/ OpenFail
    \/ WriteRow
    \/ WriteFail
    \/ CloseFile
    \/ ConvertCsvOk
    \/ ConvertCsvFail
    \/ RemoveChannelCsv
    \/ Cleanup
    \/ MainUsage
    \/ MainExit

Spec == Init /\ [][Next]_vars

NextEvents ==
    \/ ProcessFile
    \/ ConvertMidiOk
    \/ UseCsv
    \/ ReadEvents
    \/ MkdirOk
    \/ Classify
    \/ OpenOk
    \/ WriteRow
    \/ CloseFile
    \/ ConvertCsvOk
    \/ RemoveChannelCsv
    \/ Cleanup

SpecEvents == InitEvents /\ [][NextEvents]_vars

\* ------------------------------------------------------------------------
\* Vocabulary of the properties
\* ------------------------------------------------------------------------
ChannelLabels == {Note_on_c, Note_off_c, Control_c, Program_c, Pitch_bend_c}

\* a row that carries a channel: more than 3 fields and a channel label
ChannelCarrying(row) == Len(row) > 3 /\ row[3] \in ChannelLabels

\* the channel numbers occurring in channel-carrying rows
FoundChannels(rs) == { int(rs[i][4]) : i \in { k \in 1..Len(rs) : ChannelCarrying(rs[k]) } }

\* position of the first row that carries channel n
FirstOccurrence(rs, n) ==
    CHOOSE i \in 1..Len(rs) :
        /\ ChannelCarrying(rs[i]) /\ int(rs[i][4]) = n
        /\ \A k \in 1..(i - 1) : ~(ChannelCarrying(rs[k]) /\ int(rs[k][4]) = n)

HasMalformed(rs) ==
    \E i \in 1..Len(rs) : ChannelCarrying(rs[i]) /\ ~IntParses(rs[i][4])

\* the rows of rs that are global or carry channel n, in order
RECURSIVE PartitionOf(_, _)
PartitionOf(rs, n) ==
    IF rs = <<>> THEN <<>>
    ELSE IF ~ChannelCarrying(Head(rs)) \/ int(Head(rs)[4]) = n
         THEN <<Head(rs)>> \o PartitionOf(Tail(rs), n)
         ELSE PartitionOf(Tail(rs), n)

\* _process_midi_events has returned and its results are still in scope
Classified == pc \in {"open", "write", "convert", "remove", "cleanup"}

\* the decision on the intermediate files has been taken in this call
Decided ==
    \/ pc \in {"read", "mkdir", "classify", "open", "write", "convert", "remove", "cleanup"}
    \/ pc = "done" /\ failed_at \notin {"exists", "midicsv"}

SeqToSet(q) == { q[k] : k \in 1..Len(q) }

\* ------------------------------------------------------------------------
\* Properties
\* ------------------------------------------------------------------------

\* C1: when _write_channel_file(C, ...) has returned, the rows it wrote are
\* exactly the global rows of the input and the rows whose channel is C, in
\* input order, each once, and no row of another discovered channel.
C1_PartitionExact ==
    pc = "convert" => f.rows = PartitionOf(rows, channel)

\* C2: the channel list holds every channel number of a channel-carrying row
\* exactly once, ordered by first occurrence in the input, and the channel
\* files are written in exactly that order.
C2_ChannelOrder ==
    Classified =>
        /\ SeqToSet(channels) = FoundChannels(rows)
        /\ \A a, b \in 1..Len(channels) :
               a < b => /\ channels[a] # channels[b]
                        /\ FirstOccurrence(rows, channels[a]) < FirstOccurrence(rows, channels[b])
        /\ Len(written) <= Len(channels)
        /\ written = SubSeq(channels, 1, Len(written))
        /\ pc = "cleanup" => written = channels

C2_Witness ==
    /\ pc = "cleanup"
    /\ channels = <<2, 1>>
    /\ written = <<2, 1>>
    /\ Len(rows) = 3

\* C6: a row is tagged with a channel iff it has more than 3 fields and
\* field 2 is one of the five channel labels, the tag being the integer
\* value of field 3; every other row gets the global marker and adds nothing
\* to the channel list; the classified list has the input's length and order.
C6_Classification ==
    Classified =>
        /\ Len(midi_events) = Len(rows)
        /\ \A i \in 1..Len(rows) :
              /\ midi_events[i][2] = rows[i]
              /\ midi_events[i][1] =
                    IF ChannelCarrying(rows[i]) THEN int(rows[i][4]) ELSE META_EVENT_CHANNEL
        /\ SeqToSet(channels) = FoundChannels(rows)

C6_Witness ==
    /\ Classified
    /\ \E i, j, k \in 1..Len(rows) :
          /\ Len(rows[i]) = 3 /\ rows[i][3] = Control_c
          /\ Len(rows[j]) = 4 /\ rows[j][3] = Program_c /\ midi_events[j][1] = 2
          /\ Len(rows[k]) = 4 /\ rows[k][3] = Tempo /\ midi_events[k][1] = -1

\* the step in which process_file returns normally
Returns == pc = "cleanup" /\ pc' = "done" /\ result' = "returned"

\* C3 as stated: when process_file returns successfully, split_channels
\* exists and holds channel_N.mid for exactly the channels N found in the
\* input, and channel_N.csv exists for those N iff remove_csv is false.
C3_ExactlyFoundChannels ==
    [][Returns =>
          /\ out_dir'
          /\ out_mid' = FoundChannels(rows)
          /\ \A n \in FoundChannels(rows) : (n \in out_csv') <=> (remove_csv' = "False")]_vars

\* C3 amended: when process_file returns successfully, split_channels exists
\* and holds channel_N.mid for every channel N found in the input; the
\* channel files of every other N are exactly those that were there when the
\* call started; channel_N.csv exists for the found N iff remove_csv is false.
C3_FoundChannelsAdded ==
    [][Returns =>
          /\ out_dir'
          /\ FoundChannels(rows) \subseteq out_mid'
          /\ out_mid' \ FoundChannels(rows) = before.out_mid \ FoundChannels(rows)
          /\ out_csv' \ FoundChannels(rows) = before.out_csv \ FoundChannels(rows)
          /\ \A n \in FoundChannels(rows) : (n \in out_csv') <=> (remove_csv' = "False")]_vars

C3_Witness ==
    /\ pc = "done"
    /\ result = "returned"
    /\ Len(written) = 2
    /\ SeqToSet(written) \subseteq out_mid
    /\ \E n \in out_mid : n \notin SeqToSet(written)
    /\ \E n \in out_csv : n \in SeqToSet(written)

\* C4: for a splitter constructed without a remove_csv choice, the decision
\* in force in every call is the one of that call's input form: discard for
\* a binary input, keep for a textual input.
C4_DecisionPerCall ==
    (ctor_remove_csv = "None" /\ Decided) =>
        remove_csv = IF is_midi_file(input_file) THEN "True" ELSE "False"

\* C5: every failure of process_file reaches the caller as a
\* MidiSplitterError and nothing else; main exits with status 1 on any error
\* and with status 0 only when the whole run succeeded.
C5_OnlyMidiSplitterError ==
    /\ pc = "done" => result \in {"returned", "MidiSplitterError"}
    /\ (pc = "done" /\ failed_at # "none") => result = "MidiSplitterError"
    /\ exit_status = 0 => (pc = "done" /\ result = "returned" /\ failed_at = "none")
    /\ (exit_status # -1 /\ (argc # 2 \/ result # "returned")) => exit_status = 1

C5_Witness ==
    /\ caller = "main"
    /\ exit_status = 1
    /\ failed_at = "classify"
    /\ result = "MidiSplitterError"

\* C7: a channel whose textual file this call wrote and which is deleted now
\* has a successfully produced channel_N.mid; when the conversion of channel
\* N fails, channel_N.csv is still there when the error propagates.
C7_RemoveAfterConvert ==
    /\ \A k \in 1..Len(written) :
          written[k] \notin out_csv =>
              (written[k] \in converted /\ written[k] \in out_mid)
    /\ (pc = "done" /\ failed_at = "csvmidi") =>
          (written # <<>> /\ written[Len(written)] \in out_csv
                          /\ written[Len(written)] \notin converted)

C7_Witness ==
    /\ pc = "done"
    /\ failed_at = "csvmidi"
    /\ remove_csv = "True"
    /\ Len(written) = 2
    /\ written[1] \notin out_csv
    /\ written[2] \in out_csv

\* C8: a channel-carrying row whose field 3 is no integer fails the whole
\* input: process_file raises, the row is neither skipped nor treated as
\* global, and the call writes no channel file, textual or binary.
C8_MalformedFailsWhole ==
    [][(pc = "classify" /\ HasMalformed(rows)) =>
          /\ pc' = "done"
          /\ result' = "MidiSplitterError"
          /\ failed_at' = "classify"
          /\ written' = <<>>
          /\ converted' = {}
          /\ out_csv' = before.out_csv
          /\ out_mid' = before.out_mid]_vars

C8_Witness ==
    /\ pc = "done"
    /\ failed_at = "classify"
    /\ result = "MidiSplitterError"
    /\ out_dir
    /\ written = <<>>
    /\ out_csv = {}
    /\ out_mid = {}

\* C9: the row list of a partition is complete before the destination is
\* opened: channel_N.csv is never open while rows are still being selected.
C9_BuiltBeforeOpen ==
    ~(pc = "write" /\ f.open /\ ei <= Len(midi_events))

\* C10: process_file never deletes the file the caller passed in: an input
\* path that existed before the call exists when the call returns or raises.
C10_InputKept ==
    (pc = "done" /\ existed) => input_file \in files

====
